---- MODULE Spec2Model ----
(***************************************************************************)
(* AI enrichment pipeline of the accessibility dashboard: the tiered       *)
(* resolution of one finding (cache, rule database, budget gate, AI call   *)
(* with retries, fallback) and the batch orchestrator that fans findings   *)
(* out under a concurrency cap and a shared budget.                        *)
(*                                                                         *)
(* The Python sources of the pipeline (simple_ai.py, prioritizer.py,       *)
(* analyzer.py, ai/cache.py) are described by the documents under src/;    *)
(* where those documents show the code or its flow the model follows them, *)
(* elsewhere it follows the specification's component design (4.1 - 4.5).  *)
(***************************************************************************)
EXTENDS Integers, Sequences, FiniteSets, TLC

\* ------------------------------------------------------------------ bounds
NumFindings == 3       \* findings in one batch
MaxBudget == 2         \* largest AI budget of a batch
MaxConcurrent == 2     \* largest max_concurrent of a batch
MaxNow == 1            \* horizon of the cache clock (in days)
MaxAge == 2            \* days left, at the start, to the entries of an earlier run
NumThreads == 2        \* threads calling the synchronous client
NumTasks == 2          \* issues of one analyze_batch_async call
MaxCalls == 2          \* calls one thread makes, one after the other
NumRecorders == 3      \* callers recording an outcome at the same time
MaxScans == 3          \* scans requested from the scan page

\* ------------------------------------------------------- program constants
MaxRetries == 3        \* Retry(total=3): 3 retries, 4 attempts in all
TtlDays == 30          \* AICache(db_path, ttl_days=30)
\* the Transport's times are counted in half seconds
min_interval == 2      \* self._min_interval = 1.0 (1 request per second)
backoff_factor == 2    \* Retry(backoff_factor=1): waits of 1 s, 2 s, 4 s

\* -------------------------------------------------------------- data model
Positions == 1..NumFindings

\* rules_database.json: rule id -> requires_ai.  "button-name" stands for the
\* 21 rules answered by the database, "color-contrast" is the one rule that
\* requires AI; "custom-rule" is an id the database does not hold.
RuleTable == [r \in {"button-name", "color-contrast"} |-> (r = "color-contrast")]
RuleIds == DOMAIN RuleTable \cup {"custom-rule"}

Keys == {"k1", "k2"}
NoEntry == [absent |-> TRUE]
NoResult == [tag |-> "none"]
AIGuidance == {"ai-a", "ai-b"}
OldGuidance == "ai-old"       \* guidance cached by an earlier run
Tags == {"rule-table", "cache-hit", "ai-call", "fallback"}

\* The kinds of finding a batch is drawn from (rule id, content).
FindingKinds ==
    { [rule |-> "button-name",    desc |-> "k1"],
      [rule |-> "color-contrast", desc |-> "k1"],
      [rule |-> "custom-rule",    desc |-> "k2"] }

VARIABLES
    findings,       \* the batch: position -> [id, rule, desc]
    maxConcurrent,  \* concurrency ceiling of the batch
    ceiling,        \* Budget: ceiling given at batch start
    remaining,      \* Budget: live remaining counter
    sem,            \* free slots of the concurrency semaphore
    pc,             \* position -> stage of its resolution
    got,            \* position -> what the cache get returned
    attempts,       \* position -> network attempts of its Transport call
    retryable,      \* position -> every attempt so far ended retryable
    decs,           \* position -> budget units this resolution consumed
    outcome,        \* position -> outcomes its Transport call recorded
    results,        \* the index-addressed result array
    cancelled,      \* the caller cancelled the batch
    returned,       \* resolveAll has returned
    cache,          \* Expiring Cache: key -> entry
    storage,        \* the cache's durable storage: "ok" or "faulty"
    storage_errors, \* the storage errors met so far: (position, operation)
    now,            \* cache clock
    usage,          \* UsageStats counters
    aiCalls,        \* Transport calls invoked since batch start
    \* --- the client (Transport) seen in time
    rate_limiter,   \* the Lock: the thread holding it, or 0
    elapsed,        \* time.time() - self._last_call_time, up to min_interval
    max_concurrent, \* max_concurrent of the analyze_batch_async call
    semaphore,      \* free slots of its asyncio.Semaphore
    tpc,            \* caller -> stage of its call
    tries,          \* caller -> attempts of its call so far
    sleep,          \* caller -> time left of its sleep
    waited,         \* caller -> sum of the backoff waits of its call so far
    ncalls,         \* caller -> calls completed
    since_start,    \* time since the latest attempt of any caller was sent
    since_sync_start, \* time since the latest attempt of the synchronous client
    api_key,        \* self.api_key: OPENROUTER_API_KEY was found at construction
    \* --- the Usage Tracker under concurrent recorders
    stats,          \* UsageStats: the shared counters
    stats_lock,     \* the lock the updates are made within: its holder, or 0
    rec,            \* recorder -> the outcome it records
    rpc,            \* recorder -> stage of its update
    seen,           \* recorder -> the counters it read
    snapshot,       \* what the last get_usage_stats() returned
    \* --- the Expiring Cache used on its own
    ret,            \* what the last cache operation returned
    \* --- the scan page of the dashboard (ScanNew)
    scanStage,      \* 'form' | 'scanning' | 'complete'
    progress,       \* the progress value shown, in percent
    mutation,       \* status of the scan mutation: idle, pending, success, error
    progressInterval, \* the interval simulating progress is running
    scans           \* scan requests sent so far

uvars == << stats, stats_lock, rec, rpc, seen, snapshot >>

pvars == << scanStage, progress, mutation, progressInterval, scans >>

tvars == << rate_limiter, elapsed, max_concurrent, semaphore, tpc, tries, sleep,
            waited, ncalls, since_start, since_sync_start, api_key, uvars, ret, pvars >>

vars == << findings, maxConcurrent, ceiling, remaining, sem, pc, got, attempts,
           retryable, decs, outcome, results, cancelled, returned, cache, now,
           usage, aiCalls, storage, storage_errors, tvars >>

\* --------------------------------------------------------- Expiring Cache
ValidEntryInclusive(e, t) == e # NoEntry /\ e.expires_at >= t

\* get returns absent for an entry whose expiration is at or before now.
ValidEntry(e, t) == e # NoEntry /\ e.expires_at > t

CacheGetIgnoringExpiry(c, k, t) == IF c[k] # NoEntry THEN c[k].value ELSE "absent"

\* get: the value if fresh, absent if expired or missing
CacheGet(c, k, t) == IF ValidEntry(c[k], t) THEN c[k].value ELSE "absent"

CacheSetNothing(c, k, v, t) == c

CacheSetKeepingTimestamps(c, k, v, t) ==
    IF c[k] = NoEntry
    THEN [c EXCEPT ![k] = [value |-> v, created_at |-> t, expires_at |-> t + TtlDays]]
    ELSE [c EXCEPT ![k].value = v]

\* set (re)writes the value and both timestamps from the configured TTL.
CacheSet(c, k, v, t) ==
    [c EXCEPT ![k] = [value |-> v, created_at |-> t, expires_at |-> t + TtlDays]]

CrashDuringSetTorn(c, k, v, t) ==
    [c EXCEPT ![k] = [value |-> "partial", created_at |-> t, expires_at |-> t + TtlDays]]

\* what the table holds after a restart when the process crashed in the
\* middle of set(k, v): the write is one transaction, which did not commit
CrashDuringSet(c, k, v, t) == c

\* the rows of the table
Rows(c) == { k \in DOMAIN c : c[k] # NoEntry }

CleanupExpiredOlderOnly(c, t) ==
    [k \in DOMAIN c |-> IF c[k] # NoEntry /\ c[k].expires_at >= t THEN c[k] ELSE NoEntry]

\* cleanup_expired removes the expired rows
CleanupExpired(c, t) == [k \in DOMAIN c |-> IF ValidEntry(c[k], t) THEN c[k] ELSE NoEntry]

\* clear_all removes every row
ClearAll(c) == [k \in DOMAIN c |-> NoEntry]

CacheStatsExpiredStrictlyBefore(c, t) ==
    [total_entries |-> Cardinality(Rows(c)),
     valid_entries |-> Cardinality({ k \in Rows(c) : ValidEntry(c[k], t) }),
     expired_entries |-> Cardinality({ k \in Rows(c) : c[k].expires_at < t })]

\* get_stats: total_entries, valid_entries, expired_entries
CacheStats(c, t) ==
    [total_entries |-> Cardinality(Rows(c)),
     valid_entries |-> Cardinality({ k \in Rows(c) : ValidEntry(c[k], t) }),
     expired_entries |-> Cardinality({ k \in Rows(c) : ~ValidEntry(c[k], t) })]

NoReturn == [op |-> "none"]

\* key: deterministic hash of the finding's content (+ framework, fixed here).
CacheKey(f) == f.desc

\* ---------------------------------------------------------- Usage Tracker
ZeroUsage == [total_requests |-> 0, successful_requests |-> 0, failed_requests |-> 0]

RecordOutcomeAsSuccess(u, success) ==
    [u EXCEPT !.total_requests = @ + 1, !.successful_requests = @ + 1]

RecordOutcomeSuccessOnly(u, success) ==
    IF success
    THEN [u EXCEPT !.total_requests = @ + 1, !.successful_requests = @ + 1]
    ELSE u

\* one request more, counted as successful or as failed
RecordOutcome(u, success) ==
    [u EXCEPT !.total_requests = @ + 1,
              !.successful_requests = IF success THEN @ + 1 ELSE @,
              !.failed_requests = IF success THEN @ ELSE @ + 1]

UsageAfterRetryCounted(u) == [u EXCEPT !.total_requests = @ + 1, !.failed_requests = @ + 1]

\* The retries are made inside session.post: a failed attempt that is
\* retried is not tracked.
UsageAfterRetry(u) == u

\* UsageStats with its token counters; the cost is counted in millionths of
\* a dollar, so that tokens / 1,000,000 * price is the integer tokens * price
ZeroStats ==
    [total_requests |-> 0, successful_requests |-> 0, failed_requests |-> 0,
     total_prompt_tokens |-> 0, total_completion_tokens |-> 0, total_tokens |-> 0,
     estimated_cost_usd |-> 0]

\* what one call reports: success or failure and the tokens of the response
Recorders == 1..NumRecorders
PromptTokens == {150, 160}
CompletionTokens == {85}
\* the prices in force at a call: a free model, or $30 and $60 per 1M tokens
Pricings == { [prompt |-> 0, completion |-> 0], [prompt |-> 30, completion |-> 60] }
Outcomes == [success : BOOLEAN, prompt_tokens : PromptTokens,
             completion_tokens : CompletionTokens, price : Pricings]

\* cost = (prompt_tokens / 1,000,000 x prompt_price) +
\*        (completion_tokens / 1,000,000 x completion_price), in millionths
CallCost(prompt_tokens, completion_tokens, price) ==
    prompt_tokens * price.prompt + completion_tokens * price.completion

AddUsageRepriced(u, o) ==
    IF o.success
    THEN [u EXCEPT !.total_requests = @ + 1,
                   !.successful_requests = @ + 1,
                   !.total_prompt_tokens = @ + o.prompt_tokens,
                   !.total_completion_tokens = @ + o.completion_tokens,
                   !.total_tokens = @ + o.prompt_tokens + o.completion_tokens,
                   !.estimated_cost_usd =
                       CallCost(u.total_prompt_tokens + o.prompt_tokens,
                                u.total_completion_tokens + o.completion_tokens,
                                o.price)]
    ELSE [u EXCEPT !.total_requests = @ + 1,
                   !.failed_requests = @ + 1]

AddUsageFailureCharged(u, o) ==
    [u EXCEPT !.total_requests = @ + 1,
              !.successful_requests = IF o.success THEN @ + 1 ELSE @,
              !.failed_requests = IF o.success THEN @ ELSE @ + 1,
              !.total_prompt_tokens = @ + o.prompt_tokens,
              !.total_completion_tokens = @ + o.completion_tokens,
              !.total_tokens = @ + o.prompt_tokens + o.completion_tokens,
              !.estimated_cost_usd =
                  @ + CallCost(o.prompt_tokens, o.completion_tokens, o.price)]

AddUsageCompletionUncounted(u, o) ==
    IF o.success
    THEN [u EXCEPT !.total_requests = @ + 1,
                   !.successful_requests = @ + 1,
                   !.total_prompt_tokens = @ + o.prompt_tokens,
                   !.total_completion_tokens = @ + o.completion_tokens,
                   !.total_tokens = @ + o.prompt_tokens,
                   !.estimated_cost_usd =
                       @ + CallCost(o.prompt_tokens, o.completion_tokens, o.price)]
    ELSE [u EXCEPT !.total_requests = @ + 1,
                   !.failed_requests = @ + 1]

\* UsageStats.add_usage for a success; a failure counts the request only
AddUsage(u, o) ==
    IF o.success
    THEN [u EXCEPT !.total_requests = @ + 1,
                   !.successful_requests = @ + 1,
                   !.total_prompt_tokens = @ + o.prompt_tokens,
                   !.total_completion_tokens = @ + o.completion_tokens,
                   !.total_tokens = @ + o.prompt_tokens + o.completion_tokens,
                   !.estimated_cost_usd =
                       @ + CallCost(o.prompt_tokens, o.completion_tokens, o.price)]
    ELSE [u EXCEPT !.total_requests = @ + 1,
                   !.failed_requests = @ + 1]

SuccessRateFullWhenUnused(u) ==
    IF u.total_requests = 0
    THEN 10000
    ELSE (2 * 10000 * u.successful_requests + u.total_requests)
            \div (2 * u.total_requests)

\* success_rate = successful_requests / total_requests * 100, 0 with no
\* request; counted in hundredths of a percent, rounded to the nearest
SuccessRate(u) ==
    IF u.total_requests = 0
    THEN 0
    ELSE (2 * 10000 * u.successful_requests + u.total_requests)
            \div (2 * u.total_requests)

\* get_usage_stats(): the counters and the success rate
GetUsageStats(u) ==
    [total_requests |-> u.total_requests,
     successful_requests |-> u.successful_requests,
     failed_requests |-> u.failed_requests,
     total_prompt_tokens |-> u.total_prompt_tokens,
     total_completion_tokens |-> u.total_completion_tokens,
     total_tokens |-> u.total_tokens,
     estimated_cost_usd |-> u.estimated_cost_usd,
     success_rate |-> SuccessRate(u)]

LockFreeAlways(l) == TRUE

\* all updates are made within the lock
LockFree(l) == l = 0

\* no outcome is being recorded
TrackerIdle ==
    /\ stats = ZeroStats
    /\ stats_lock = 0
    /\ rec = [r \in Recorders |-> [success |-> TRUE, prompt_tokens |-> 150,
                                    completion_tokens |-> 85,
                                    price |-> [prompt |-> 0, completion |-> 0]]]
    /\ rpc = [r \in Recorders |-> "idle"]
    /\ seen = [r \in Recorders |-> ZeroStats]
    /\ snapshot = GetUsageStats(ZeroStats)

\* ------------------------------------------------------------- rule table
\* AI is needed when the rule requires it or the database does not know it.
NeedsAIAlways(rule) == TRUE

NeedsAIKnownOnly(rule) == rule \in DOMAIN RuleTable /\ RuleTable[rule]

NeedsAI(rule) == IF rule \in DOMAIN RuleTable THEN RuleTable[rule] ELSE TRUE

RuleGuidance(rule) == "db-" \o rule

\* ----------------------------------------------------------------- Budget
AiEnabledAlways(key) == TRUE

\* without the API key the AI tier is disabled
AiEnabled(key) == key

BudgetAllowsOffByOne(r) == r >= 0

BudgetAllows(r) == r > 0

\* ------------------------------------------------------------- Transport
Timeout == 0           \* transport-level error: timeout, connection failure
StatusForcelist == {429, 500, 502, 503, 504}
Statuses == {200, 400, 404, 429, 503, Timeout}

IsSuccess(status) == status = 200
IsRetryableAnyError(status) == status # 200

\* retried: the statuses of the forcelist and transport-level errors
IsRetryable(status) == status \in StatusForcelist \/ status = Timeout

RetriesLeftOffByOne(att) == att - 1 <= MaxRetries

\* another attempt is made while the retries so far are below the maximum
RetriesLeft(att) == att - 1 < MaxRetries

\* ------------------------------------------------------ Batch Orchestrator
\* the pre-sized, index-addressed result array
StoreResultInCompletionOrder(res, i, r) ==
    LET free == { j \in DOMAIN res : res[j] = NoResult } IN
    [res EXCEPT ![CHOOSE j \in free : \A k \in free : j <= k] = r]

StoreResult(res, i, r) == [res EXCEPT ![i] = r]

\* the concurrency semaphore
SlotFreeOffByOne(s) == s >= 0

SlotFree(s) == s > 0

ReleaseSlotLeaked(s) == s

ReleaseSlot(s) == s + 1

Started(i) == pc[i] \notin {"queued", "done"}

\* the client before any call
Threads == 1..NumThreads
Tasks == (NumThreads + 1)..(NumThreads + NumTasks)
Callers == Threads \cup Tasks
\* _last_call_time starts at 0.0 against an epoch clock: long before any call
\* The scan page as it is mounted: the form, no scan requested.
PageIdle ==
    /\ scanStage = "form"
    /\ progress = 0
    /\ mutation = "idle"
    /\ progressInterval = FALSE
    /\ scans = 0

ClientIdle ==
    /\ rate_limiter = 0
    /\ elapsed = min_interval
    /\ max_concurrent = 1
    /\ semaphore = 1
    /\ tpc = [c \in Callers |-> "idle"]
    /\ tries = [c \in Callers |-> 0]
    /\ sleep = [c \in Callers |-> 0]
    /\ waited = [c \in Callers |-> 0]
    /\ ncalls = [c \in Callers |-> 0]
    /\ since_start = min_interval
    /\ since_sync_start = min_interval

\* The state when a batch is handed to the orchestrator: nothing started, the
\* budget full, the cache empty or holding one entry that expires at day 1.
BatchStart ==
    /\ findings \in { f \in [Positions -> [id : Positions, rule : RuleIds, desc : Keys]] :
                        \A i \in Positions :
                            /\ f[i].id = i
                            /\ [rule |-> f[i].rule, desc |-> f[i].desc] \in FindingKinds }
    /\ maxConcurrent \in 1..MaxConcurrent
    /\ ceiling \in 0..MaxBudget
    /\ remaining = ceiling
    /\ sem = maxConcurrent
    /\ pc = [i \in Positions |-> "queued"]
    /\ got = [i \in Positions |-> "none"]
    /\ attempts = [i \in Positions |-> 0]
    /\ retryable = [i \in Positions |-> TRUE]
    /\ decs = [i \in Positions |-> 0]
    /\ outcome = [i \in Positions |-> << >>]
    /\ results = [i \in Positions |-> NoResult]
    /\ cancelled = FALSE
    /\ returned = FALSE
    /\ cache \in { [k \in Keys |-> NoEntry],
                   [k \in Keys |-> IF k = "k1"
                                   THEN [value |-> OldGuidance, created_at |-> 1 - TtlDays,
                                         expires_at |-> 1]
                                   ELSE NoEntry] }
    /\ now = 0
    /\ usage = ZeroUsage
    /\ aiCalls = 0
    /\ storage_errors = {}
    /\ ret = NoReturn
    /\ ClientIdle
    /\ TrackerIdle
    /\ PageIdle

\* ... by a client that found its API key.
Init ==
    /\ BatchStart
    /\ api_key = TRUE
    /\ storage = "ok"

\* A resolution ends: its result goes to its slot and its semaphore slot is freed.
Finish(i, tag, guidance) ==
    /\ results' = StoreResult(results, i,
                              [id |-> findings[i].id, tag |-> tag, guidance |-> guidance])
    /\ pc' = [pc EXCEPT ![i] = "done"]
    /\ sem' = ReleaseSlot(sem)

StartInAnyOrder(i) ==
    /\ pc[i] = "queued"
    /\ ~cancelled /\ ~returned
    /\ SlotFree(sem)
    /\ sem' = sem - 1
    /\ pc' = [pc EXCEPT ![i] = "cache"]
    /\ UNCHANGED << tvars, storage, storage_errors, findings, maxConcurrent, ceiling, remaining, got, attempts,
                    retryable, decs, outcome, results, cancelled, returned, cache,
                    now, usage, aiCalls >>

\* The next queued finding starts when a slot is free.
Start(i) ==
    /\ pc[i] = "queued"
    /\ ~cancelled /\ ~returned
    /\ \A j \in Positions : j < i => pc[j] # "queued"
    /\ SlotFree(sem)
    /\ sem' = sem - 1
    /\ pc' = [pc EXCEPT ![i] = "cache"]
    /\ UNCHANGED << tvars, storage, storage_errors, findings, maxConcurrent, ceiling, remaining, got, attempts,
                    retryable, decs, outcome, results, cancelled, returned, cache,
                    now, usage, aiCalls >>

CacheLookupSkipped(i) ==
    /\ pc[i] = "cache"
    /\ pc' = [pc EXCEPT ![i] = "gate"]
    /\ UNCHANGED << tvars, storage, storage_errors, findings, maxConcurrent, ceiling, remaining, attempts, retryable,
                    decs, outcome, cancelled, returned, cache, now, usage, aiCalls,
                    got, results, sem >>

\* what a storage operation can meet: an error or not
StorageOutcomes(st) == IF st = "faulty" THEN BOOLEAN ELSE {FALSE}

LogError(log, i, op) == log \cup {[pos |-> i, op |-> op]}

OnCacheGetErrorRaised(i) ==
    /\ got' = [got EXCEPT ![i] = "absent"]
    /\ results' = StoreResult(results, i,
                              [id |-> findings[i].id, tag |-> "none", guidance |-> "none"])
    /\ pc' = [pc EXCEPT ![i] = "done"]
    /\ sem' = ReleaseSlot(sem)

\* A storage error on get degrades to a cache miss.
OnCacheGetError(i) ==
    /\ got' = [got EXCEPT ![i] = "absent"]
    /\ pc' = [pc EXCEPT ![i] = "gate"]
    /\ UNCHANGED << results, sem >>

\* Check the persistent cache: a valid entry is returned as a cache hit.
CacheLookup(i) ==
    /\ pc[i] = "cache"
    /\ \E err \in StorageOutcomes(storage) :
          IF err
          THEN /\ OnCacheGetError(i)
               /\ storage_errors' = LogError(storage_errors, i, "get")
          ELSE LET v == CacheGet(cache, CacheKey(findings[i]), now) IN
               /\ got' = [got EXCEPT ![i] = v]
               /\ IF v # "absent"
                  THEN Finish(i, "cache-hit", v)
                  ELSE /\ pc' = [pc EXCEPT ![i] = "gate"]
                       /\ UNCHANGED << results, sem >>
               /\ UNCHANGED storage_errors
    /\ UNCHANGED << tvars, storage, findings, maxConcurrent, ceiling, remaining, attempts, retryable,
                    decs, outcome, cancelled, returned, cache, now, usage, aiCalls >>

\* One network attempt of the Transport call is sent.
Dispatch(i) ==
    /\ attempts' = [attempts EXCEPT ![i] = @ + 1]
    /\ pc' = [pc EXCEPT ![i] = "inflight"]

\* One budget unit is taken and the Transport is invoked.
TakeBudget(i) ==
    /\ remaining' = remaining - 1
    /\ decs' = [decs EXCEPT ![i] = @ + 1]
    /\ aiCalls' = aiCalls + 1
    /\ Dispatch(i)
    /\ UNCHANGED << results, sem >>

GateTestThenDecrement(i) ==
    /\ \/ /\ pc[i] = "gate"
          /\ IF ~NeedsAI(findings[i].rule)
             THEN /\ Finish(i, "rule-table", RuleGuidance(findings[i].rule))
                  /\ UNCHANGED << remaining, decs, aiCalls, attempts >>
             ELSE IF AiEnabled(api_key) /\ BudgetAllows(remaining)
             THEN /\ pc' = [pc EXCEPT ![i] = "take"]
                  /\ UNCHANGED << remaining, decs, aiCalls, attempts, results, sem >>
             ELSE /\ Finish(i, "fallback", "generic")
                  /\ UNCHANGED << remaining, decs, aiCalls, attempts >>
       \/ /\ pc[i] = "take"
          /\ TakeBudget(i)
    /\ UNCHANGED << tvars, storage, storage_errors, findings, maxConcurrent, ceiling, got, retryable, outcome,
                    cancelled, returned, cache, now, usage >>

\* Rule database, then the budget gate: the rule database answers rules that
\* need no AI; otherwise one budget unit is taken (test and decrement in one
\* step) and the Transport is invoked; with no budget left, or with no API
\* key, the fallback.
Gate(i) ==
    /\ pc[i] = "gate"
    /\ IF ~NeedsAI(findings[i].rule)
       THEN /\ Finish(i, "rule-table", RuleGuidance(findings[i].rule))
            /\ UNCHANGED << remaining, decs, aiCalls, attempts >>
       ELSE IF AiEnabled(api_key) /\ BudgetAllows(remaining)
       THEN TakeBudget(i)
       ELSE /\ Finish(i, "fallback", "generic")
            /\ UNCHANGED << remaining, decs, aiCalls, attempts >>
    /\ UNCHANGED << tvars, storage, storage_errors, findings, maxConcurrent, ceiling, got, retryable, outcome,
                    cancelled, returned, cache, now, usage >>

RetryChargingBudget(i) ==
    /\ Dispatch(i)
    /\ remaining' = remaining - 1
    /\ decs' = [decs EXCEPT ![i] = @ + 1]

\* A retry is one more attempt of the same call: the budget is not touched.
Retry(i) ==
    /\ Dispatch(i)
    /\ UNCHANGED << remaining, decs >>

OnTransportErrorNoResult(i) ==
    /\ results' = StoreResult(results, i,
                              [id |-> findings[i].id, tag |-> "none", guidance |-> "none"])
    /\ pc' = [pc EXCEPT ![i] = "done"]
    /\ sem' = ReleaseSlot(sem)

CacheOnFinalFailStored(c, k, t) == CacheSet(c, k, "generic", t)

\* Final fail: the fallback is used and nothing is written to the cache.
CacheOnFinalFail(c, k, t) == c

\* A terminal Transport error is replaced by the generic fallback.
OnTransportError(i) == Finish(i, "fallback", "generic")

\* The attempt's response is classified.
Respond(i, status, g) ==
    /\ pc[i] = "inflight"
    /\ retryable' = [retryable EXCEPT ![i] = @ /\ IsRetryable(status)]
    /\ IF IsSuccess(status)
       THEN /\ usage' = RecordOutcome(usage, TRUE)
            /\ outcome' = [outcome EXCEPT ![i] = Append(@, "success")]
            /\ \E err \in StorageOutcomes(storage) :
                  IF err
                  THEN /\ cache' = cache
                       /\ storage_errors' = LogError(storage_errors, i, "set")
                  ELSE /\ cache' = CacheSet(cache, CacheKey(findings[i]), g, now)
                       /\ UNCHANGED storage_errors
            /\ Finish(i, "ai-call", g)
            /\ UNCHANGED << attempts, remaining, decs >>
       ELSE IF IsRetryable(status) /\ RetriesLeft(attempts[i])
       THEN /\ Retry(i)
            /\ usage' = UsageAfterRetry(usage)
            /\ UNCHANGED << outcome, cache, results, sem, storage_errors >>
       ELSE /\ usage' = RecordOutcome(usage, FALSE)
            /\ outcome' = [outcome EXCEPT ![i] = Append(@, "failed")]
            /\ OnTransportError(i)
            /\ cache' = CacheOnFinalFail(cache, CacheKey(findings[i]), now)
            /\ UNCHANGED << attempts, remaining, decs, storage_errors >>
    /\ UNCHANGED << tvars, storage, findings, maxConcurrent, ceiling, got, cancelled, returned, now,
                    aiCalls >>

CancelDiscardingResults ==
    /\ ~cancelled /\ ~returned
    /\ cancelled' = TRUE
    /\ results' = [i \in Positions |-> NoResult]
    /\ UNCHANGED << tvars, storage, storage_errors, findings, maxConcurrent, ceiling, remaining, sem, pc, got,
                    attempts, retryable, decs, outcome, returned, cache, now,
                    usage, aiCalls >>

\* The caller cancels the batch: no new resolution is started.
Cancel ==
    /\ ~cancelled /\ ~returned
    /\ cancelled' = TRUE
    /\ UNCHANGED << tvars, storage, storage_errors, findings, maxConcurrent, ceiling, remaining, sem, pc, got,
                    attempts, retryable, decs, outcome, results, returned, cache, now,
                    usage, aiCalls >>

\* resolveAll returns once no resolution is in flight and none remains to start.
Return ==
    /\ ~returned
    /\ \A i \in Positions : pc[i] = "done" \/ (cancelled /\ pc[i] = "queued")
    /\ returned' = TRUE
    /\ UNCHANGED << tvars, storage, storage_errors, findings, maxConcurrent, ceiling, remaining, sem, pc, got,
                    attempts, retryable, decs, outcome, results, cancelled, cache, now,
                    usage, aiCalls >>

\* Time passes.
Tick ==
    /\ now < MaxNow
    /\ ~returned
    /\ now' = now + 1
    /\ UNCHANGED << tvars, storage, storage_errors, findings, maxConcurrent, ceiling, remaining, sem, pc, got,
                    attempts, retryable, decs, outcome, results, cancelled, returned,
                    cache, usage, aiCalls >>

Resolve(i) ==
    \/ Start(i)
    \/ CacheLookup(i)
    \/ Gate(i)
    \/ \E status \in Statuses, g \in AIGuidance : Respond(i, status, g)

Next ==
    \/ \E i \in Positions : Resolve(i)
    \/ Cancel
    \/ Return
    \/ Tick

Spec == Init /\ [][Next]_vars

\* A batch handed to a client constructed with or without OPENROUTER_API_KEY.
ConfigInit ==
    /\ BatchStart
    /\ api_key \in BOOLEAN
    /\ storage = "ok"

ConfigSpec == ConfigInit /\ [][Next]_vars

\* A batch resolved, one finding at a time, over a cache whose storage
\* operations may fail.
StorageInit ==
    /\ BatchStart
    /\ maxConcurrent = 1
    /\ api_key = TRUE
    /\ storage = "faulty"

StorageSpec == StorageInit /\ [][Next]_vars

\* Fair scheduling: every resolution that can take a step eventually takes
\* one, every network attempt returns, and the orchestrator returns.
FairSpec ==
    /\ Spec
    /\ \A i \in Positions : WF_vars(Resolve(i))
    /\ WF_vars(Return)

\* ------------------------------------------- the client (Transport) in time
Min(a, b) == IF a < b THEN a ELSE b
Max(a, b) == IF a > b THEN a ELSE b

bvars == << findings, maxConcurrent, ceiling, remaining, sem, pc, got, attempts,
            retryable, decs, outcome, results, cancelled, returned, cache, now,
            aiCalls, ret, api_key, storage, storage_errors, pvars >>

ThrottleSleepNone(e) == 0

\* time.sleep(self._min_interval - elapsed) when elapsed < self._min_interval
ThrottleSleep(e) == IF e < min_interval THEN min_interval - e ELSE 0

BackoffLinear(a) == backoff_factor * (a + 1)

\* wait before retry a + 1 (a counts the retries made so far, from 0)
Backoff(a) == backoff_factor * 2^a

\* One attempt is sent to the API.
Send(c) ==
    /\ tries' = [tries EXCEPT ![c] = @ + 1]
    /\ tpc' = [tpc EXCEPT ![c] = "wait"]
    /\ since_start' = 0
    /\ since_sync_start' = IF c \in Threads THEN 0 ELSE since_sync_start

\* _make_api_call: take the rate limiter lock and work out the sleep.
Acquire(c) ==
    /\ c \in Threads
    /\ tpc[c] = "idle" /\ ncalls[c] < MaxCalls
    /\ rate_limiter = 0
    /\ rate_limiter' = c
    /\ sleep' = [sleep EXCEPT ![c] = ThrottleSleep(elapsed)]
    /\ tpc' = [tpc EXCEPT ![c] = "throttle"]
    /\ UNCHANGED << bvars, uvars, elapsed, max_concurrent, semaphore, tries, ncalls, since_start,
                    since_sync_start, usage, waited >>

\* _make_api_call: the sleep is over, session.post is issued under the lock.
Post(c) ==
    /\ c \in Threads
    /\ tpc[c] = "throttle" /\ sleep[c] = 0
    /\ Send(c)
    /\ UNCHANGED << bvars, uvars, rate_limiter, elapsed, max_concurrent, semaphore, sleep, ncalls,
                    usage, waited >>

\* analyze_batch_async: an issue takes a semaphore slot and posts at once;
\* the async path is limited by the semaphore, not by per-call delays.
Enter(c) ==
    /\ c \in Tasks
    /\ tpc[c] = "idle" /\ ncalls[c] = 0
    /\ semaphore > 0
    /\ semaphore' = semaphore - 1
    /\ Send(c)
    /\ UNCHANGED << bvars, uvars, rate_limiter, elapsed, max_concurrent, sleep, ncalls, usage,
                    waited >>

\* The call is over: usage is tracked; the synchronous client records the
\* time and releases the lock, the batch path frees its semaphore slot.
Complete(c, ok) ==
    /\ usage' = RecordOutcome(usage, ok)
    /\ tpc' = [tpc EXCEPT ![c] = "idle"]
    /\ tries' = [tries EXCEPT ![c] = 0]
    /\ ncalls' = [ncalls EXCEPT ![c] = @ + 1]
    /\ IF c \in Threads
       THEN /\ elapsed' = 0
            /\ rate_limiter' = 0
            /\ UNCHANGED semaphore
       ELSE /\ semaphore' = semaphore + 1
            /\ UNCHANGED << elapsed, rate_limiter >>
    /\ waited' = [waited EXCEPT ![c] = 0]
    /\ UNCHANGED sleep

\* The attempt's response arrives and is classified by the retry strategy.
Response(c, status) ==
    /\ tpc[c] = "wait"
    /\ IF IsSuccess(status)
       THEN Complete(c, TRUE)
       ELSE IF IsRetryable(status) /\ RetriesLeft(tries[c])
       THEN /\ tpc' = [tpc EXCEPT ![c] = "backoff"]
            /\ sleep' = [sleep EXCEPT ![c] = Backoff(tries[c] - 1)]
            /\ waited' = [waited EXCEPT ![c] = @ + Backoff(tries[c] - 1)]
            /\ usage' = UsageAfterRetry(usage)
            /\ UNCHANGED << tries, ncalls, elapsed, rate_limiter, semaphore >>
       ELSE Complete(c, FALSE)
    /\ UNCHANGED << bvars, uvars, max_concurrent, since_start, since_sync_start >>

\* The backoff is over: the retry adapter sends the next attempt.
Resend(c) ==
    /\ tpc[c] = "backoff" /\ sleep[c] = 0
    /\ Send(c)
    /\ UNCHANGED << bvars, uvars, rate_limiter, elapsed, max_concurrent, semaphore, sleep, ncalls,
                    usage, waited >>

\* One unit of time passes: sleeps run down, the times since the last call
\* and the last attempts run up (they are read only up to min_interval).
TickClock ==
    /\ elapsed' = Min(elapsed + 1, min_interval)
    /\ since_start' = Min(since_start + 1, min_interval)
    /\ since_sync_start' = Min(since_sync_start + 1, min_interval)
    /\ sleep' = [c \in Callers |-> Max(sleep[c] - 1, 0)]
    /\ UNCHANGED << bvars, uvars, rate_limiter, max_concurrent, semaphore, tpc, tries, ncalls,
                    usage, waited >>

\* No batch of findings is being resolved.
NoResolution ==
    /\ findings = [i \in Positions |-> [id |-> i, rule |-> "button-name", desc |-> "k1"]]
    /\ maxConcurrent = 1
    /\ ceiling = 0
    /\ remaining = 0
    /\ sem = 1
    /\ pc = [i \in Positions |-> "queued"]
    /\ got = [i \in Positions |-> "none"]
    /\ attempts = [i \in Positions |-> 0]
    /\ retryable = [i \in Positions |-> TRUE]
    /\ decs = [i \in Positions |-> 0]
    /\ outcome = [i \in Positions |-> << >>]
    /\ results = [i \in Positions |-> NoResult]
    /\ cancelled = FALSE
    /\ returned = FALSE
    /\ usage = ZeroUsage
    /\ aiCalls = 0
    /\ storage = "ok"
    /\ storage_errors = {}
    /\ PageIdle

\* ... and the cache is empty and unused.
NoBatch ==
    /\ NoResolution
    /\ cache = [k \in Keys |-> NoEntry]
    /\ now = 0
    /\ ret = NoReturn

\* The client alone.
TransportInit ==
    /\ NoBatch
    /\ rate_limiter = 0
    /\ elapsed = min_interval
    /\ max_concurrent \in 1..NumTasks
    /\ semaphore = max_concurrent
    /\ tpc = [c \in Callers |-> "idle"]
    /\ tries = [c \in Callers |-> 0]
    /\ sleep = [c \in Callers |-> 0]
    /\ waited = [c \in Callers |-> 0]
    /\ ncalls = [c \in Callers |-> 0]
    /\ since_start = min_interval
    /\ since_sync_start = min_interval
    /\ api_key = TRUE
    /\ TrackerIdle

TransportNext ==
    \/ \E c \in Callers : Acquire(c)
    \/ \E c \in Callers : Post(c)
    \/ \E c \in Callers : Enter(c)
    \/ \E c \in Callers : \E status \in Statuses : Response(c, status)
    \/ \E c \in Callers : Resend(c)
    \/ TickClock

TransportSpec == TransportInit /\ [][TransportNext]_vars

\* ------------------------------------- the Usage Tracker under concurrency
cvars == << rate_limiter, elapsed, max_concurrent, semaphore, tpc, tries, sleep,
            waited, ncalls, since_start, since_sync_start, usage >>

\* A recorder takes the lock.
LockStats(r) ==
    /\ rpc[r] = "idle"
    /\ LockFree(stats_lock)
    /\ stats_lock' = r
    /\ rpc' = [rpc EXCEPT ![r] = "locked"]
    /\ UNCHANGED << bvars, cvars, stats, rec, seen, snapshot >>

\* It reads the counters.
ReadStats(r) ==
    /\ rpc[r] = "locked"
    /\ seen' = [seen EXCEPT ![r] = stats]
    /\ rpc' = [rpc EXCEPT ![r] = "read"]
    /\ UNCHANGED << bvars, cvars, stats, stats_lock, rec, snapshot >>

\* It writes the counters it read plus its outcome, and releases the lock.
WriteStats(r) ==
    /\ rpc[r] = "read"
    /\ stats' = AddUsage(seen[r], rec[r])
    /\ stats_lock' = 0
    /\ rpc' = [rpc EXCEPT ![r] = "done"]
    /\ UNCHANGED << bvars, cvars, rec, seen, snapshot >>

\* reset_usage_stats(): the counters go back to zero; the callers whose
\* outcomes were counted are free to record again.
Reset ==
    /\ LockFree(stats_lock)
    /\ stats' = ZeroStats
    /\ rpc' = [r \in Recorders |-> IF rpc[r] = "done" THEN "idle" ELSE rpc[r]]
    /\ UNCHANGED << bvars, cvars, stats_lock, rec, seen, snapshot >>

\* get_usage_stats()
Snapshot ==
    /\ snapshot' = GetUsageStats(stats)
    /\ UNCHANGED << bvars, cvars, stats, stats_lock, rec, rpc, seen >>

\* The tracker alone: every recorder holds the outcome of a finished call.
UsageInit ==
    /\ NoBatch
    /\ ClientIdle
    /\ api_key = TRUE
    /\ stats = ZeroStats
    /\ stats_lock = 0
    /\ rec \in [Recorders -> Outcomes]
    /\ rpc = [r \in Recorders |-> "idle"]
    /\ seen = [r \in Recorders |-> ZeroStats]
    /\ snapshot = GetUsageStats(ZeroStats)

UsageNext ==
    \/ \E r \in Recorders : LockStats(r)
    \/ \E r \in Recorders : ReadStats(r)
    \/ \E r \in Recorders : WriteStats(r)
    \/ Reset
    \/ Snapshot

UsageSpec == UsageInit /\ [][UsageNext]_vars

\* ------------------------------------------- the Expiring Cache on its own
nvars == << findings, maxConcurrent, ceiling, remaining, sem, pc, got, attempts,
            retryable, decs, outcome, results, cancelled, returned, aiCalls,
            api_key, storage, storage_errors, cvars, uvars, pvars >>

\* cache.set(key, value)
Set(k, v) ==
    /\ cache' = CacheSet(cache, k, v, now)
    /\ ret' = [op |-> "set", key |-> k, value |-> v]
    /\ UNCHANGED << now, nvars >>

\* The process crashes in the middle of cache.set(key, value) and is
\* started again over the same database.
CrashInSet(k, v) ==
    /\ cache' = CrashDuringSet(cache, k, v, now)
    /\ ret' = [op |-> "crash", key |-> k, value |-> v]
    /\ UNCHANGED << now, nvars >>

\* cache.get(key): the value if fresh, None if expired or missing
Get(k) ==
    /\ ret' = [op |-> "get", key |-> k, value |-> CacheGet(cache, k, now)]
    /\ UNCHANGED << cache, now, nvars >>

\* cache.cleanup_expired(): returns the number of deleted entries
Cleanup ==
    /\ cache' = CleanupExpired(cache, now)
    /\ ret' = [op |-> "cleanup",
               removed |-> Cardinality(Rows(cache)) - Cardinality(Rows(cache'))]
    /\ UNCHANGED << now, nvars >>

\* cache.clear_all(): returns the number of deleted entries
Clear ==
    /\ cache' = ClearAll(cache)
    /\ ret' = [op |-> "clear", removed |-> Cardinality(Rows(cache))]
    /\ UNCHANGED << now, nvars >>

\* cache.get_stats()
Stats ==
    /\ ret' = [op |-> "stats", stats |-> CacheStats(cache, now)]
    /\ UNCHANGED << cache, now, nvars >>

\* A day passes.
Day ==
    /\ now < MaxNow
    /\ now' = now + 1
    /\ UNCHANGED << cache, ret, nvars >>

\* The cache of a new process: empty, or holding entries an earlier run wrote
\* that have 0 .. MaxAge days left.
CacheInit ==
    /\ NoResolution
    /\ ClientIdle
    /\ api_key = TRUE
    /\ TrackerIdle
    /\ cache \in [Keys -> {NoEntry} \cup
                            { [value |-> OldGuidance, created_at |-> d - TtlDays,
                               expires_at |-> d] : d \in 0..MaxAge }]
    /\ now = 0
    /\ ret = NoReturn

CacheNext ==
    \/ \E k \in Keys, v \in AIGuidance : Set(k, v)
    \/ \E k \in Keys, v \in AIGuidance : CrashInSet(k, v)
    \/ \E k \in Keys : Get(k)
    \/ Cleanup
    \/ Clear
    \/ Stats
    \/ Day

CacheSpec == CacheInit /\ [][CacheNext]_vars

\* ------------------------------------------------- the scan page (ScanNew)
\* what the others leave alone when the page acts
qvars == << findings, maxConcurrent, ceiling, remaining, sem, pc, got, attempts,
            retryable, decs, outcome, results, cancelled, returned, cache, now,
            aiCalls, ret, api_key, storage, storage_errors, cvars, uvars >>

\* Math.random() * 15, in whole percents
ProgressSteps == {7, 14}

\* Start Scan (enabled with a valid URL and no scan pending): scan.mutate()
\* runs mutationFn up to its await
StartScan ==
    /\ scanStage = "form"
    /\ mutation # "pending"
    /\ scans < MaxScans
    /\ mutation' = "pending"
    /\ scanStage' = "scanning"
    /\ progress' = 0
    /\ progressInterval' = TRUE
    /\ scans' = scans + 1
    /\ UNCHANGED qvars

\* the progress interval fires: prev => Math.min(prev + Math.random() * 15, 95)
ProgressTick(d) ==
    /\ progressInterval
    /\ progress' = Min(progress + d, 95)
    /\ UNCHANGED << scanStage, mutation, progressInterval, scans, qvars >>

\* Stop Scan: onClick={() => setScanStage('form')}
StopScan ==
    /\ scanStage = "scanning"
    /\ scanStage' = "form"
    /\ UNCHANGED << progress, mutation, progressInterval, scans, qvars >>

\* api.post('/scans/scan_url') resolves
ScanResolved ==
    /\ mutation = "pending"
    /\ progressInterval' = FALSE
    /\ progress' = 100
    /\ scanStage' = "complete"
    /\ mutation' = "success"
    /\ UNCHANGED << scans, qvars >>

\* api.post('/scans/scan_url') rejects (an error response, or the timeout)
ScanRejected ==
    /\ mutation = "pending"
    /\ progressInterval' = FALSE
    /\ scanStage' = "form"
    /\ mutation' = "error"
    /\ UNCHANGED << progress, scans, qvars >>

\* Scan Another Site: setScanStage('form'); scan.reset()
ScanAnother ==
    /\ scanStage = "complete"
    /\ mutation = "success"
    /\ scanStage' = "form"
    /\ mutation' = "idle"
    /\ UNCHANGED << progress, progressInterval, scans, qvars >>

\* The page alone.
ScanInit ==
    /\ NoBatch
    /\ ClientIdle
    /\ api_key = TRUE
    /\ TrackerIdle

ScanNext ==
    \/ StartScan
    \/ \E d \in ProgressSteps : ProgressTick(d)
    \/ StopScan
    \/ ScanResolved
    \/ ScanRejected
    \/ ScanAnother

ScanSpec == ScanInit /\ [][ScanNext]_vars

\* --------------------------------------- the success rate on the dashboard
\* Number.toFixed(1) of a value given in hundredths: the tenths shown
ToFixed1(h) == (h + 5) \div 10

\* DashboardNew, Success Rate card:
\* ((aiUsageStats.stats?.success_rate || 0) * 100).toFixed(1), in tenths of
\* a percent
DashboardSuccessRate(s) == ToFixed1(s.success_rate * 100)

\* AIStatsSection, Success Rate: usage?.success_rate.toFixed(1), in tenths
\* of a percent
SettingsSuccessRate(s) == ToFixed1(s.success_rate)

\* ================================================================== claims
AiTagged == { i \in Positions : results[i].tag = "ai-call" }
InFlight == { i \in Positions : Started(i) }
ReachedAI == { i \in Positions : attempts[i] >= 1 }

\* C1: for a batch with budget k, whatever max_concurrent is and however the
\* resolutions interleave, at most k results are tagged ai-call.
C1_BudgetConservation == Cardinality(AiTagged) <= ceiling

\* the batch has returned with more slots than budget, the budget is spent
\* on ai-call results and a finding that needed AI fell back for lack of budget
C1_Witness ==
    /\ returned /\ ~cancelled
    /\ maxConcurrent > ceiling /\ ceiling >= 1
    /\ Cardinality(AiTagged) = ceiling
    /\ \E i \in Positions :
        results[i].tag = "fallback" /\ got[i] = "absent" /\ attempts[i] = 0

\* C2: the Transport is invoked for a finding only when, at that step, the
\* rule table requires AI for the rule or does not hold it, the budget has
\* capacity left, and the cache get returned no valid entry.
C2_AiCallOnlyIfGated ==
    [][ \A i \in Positions :
          (attempts[i] = 0 /\ attempts'[i] > 0) =>
              /\ (findings[i].rule \in DOMAIN RuleTable => RuleTable[findings[i].rule])
              /\ remaining > 0
              /\ got[i] = "absent" ]_vars

\* a call is in flight for a rule the table does not hold, taken with the last
\* budget unit, while another finding has been served from the cache
C2_Witness ==
    \E i, j \in Positions :
        /\ pc[i] = "inflight" /\ findings[i].rule \notin DOMAIN RuleTable
        /\ got[i] = "absent" /\ remaining = 0
        /\ results[j].tag = "cache-hit"

\* C3: a resolution that reaches the AI tier consumes exactly one budget unit,
\* whether its Transport call makes one attempt or 1 + MaxRetries and whether
\* it succeeds or fails; a resolution that does not reach it consumes none.
C3_OneUnitPerAiCall ==
    /\ \A i \in Positions : decs[i] = (IF attempts[i] >= 1 THEN 1 ELSE 0)
    /\ ceiling - remaining = Cardinality(ReachedAI)

\* one call succeeded on its last retry and another failed after a single
\* attempt: each consumed one unit
C3_Witness ==
    \E i, j \in Positions :
        /\ results[i].tag = "ai-call" /\ attempts[i] = 1 + MaxRetries /\ decs[i] = 1
        /\ results[j].tag = "fallback" /\ attempts[j] = 1 /\ decs[j] = 1
        /\ remaining = ceiling - 2

\* C4: the remaining budget stays within 0 .. ceiling and the number of AI
\* calls dispatched so far is ceiling - remaining.
C4_BudgetInvariant ==
    /\ 0 <= remaining /\ remaining <= ceiling
    /\ aiCalls = ceiling - remaining

\* the last unit is gone to a call in flight while another resolution that
\* needs AI stands at the gate
C4_Witness ==
    \E i, j \in Positions :
        /\ pc[i] = "inflight" /\ pc[j] = "gate" /\ NeedsAI(findings[j].rule)
        /\ ceiling >= 1 /\ remaining = 0 /\ aiCalls = ceiling

\* C5: the result at index i is the enrichment of findings[i], in whatever
\* order the resolutions complete, and resolveAll returns one per finding.
C5_PositionalResults ==
    /\ DOMAIN results = DOMAIN findings
    /\ \A i \in Positions :
        /\ pc[i] = "done" <=> results[i] # NoResult
        /\ pc[i] = "done" =>
            /\ results[i].id = findings[i].id
            /\ results[i].tag = "rule-table" =>
                  results[i].guidance = RuleGuidance(findings[i].rule)
            /\ results[i].tag = "ai-call" => attempts[i] >= 1
            /\ results[i].tag = "cache-hit" => results[i].guidance = got[i]
    /\ (returned /\ ~cancelled) => \A i \in Positions : results[i] # NoResult

\* a later finding completed while an earlier one is still in flight
C5_Witness ==
    \E i, j \in Positions :
        /\ i < j /\ maxConcurrent > 1
        /\ pc[i] = "inflight" /\ pc[j] = "done" /\ results[j].id = findings[j].id

C7_BatchTerminates ==
    <>(cancelled \/ (returned /\ \A i \in Positions : pc[i] = "done"))

\* a batch longer than its concurrency cap returned with a success and a failure
C7_Witness ==
    /\ returned /\ ~cancelled /\ maxConcurrent < NumFindings
    /\ \E i, j \in Positions :
        /\ outcome[i] = << "failed" >>
        /\ outcome[j] = << "success" >>

\* C8: the resolutions started and not yet finished never exceed max_concurrent.
C8_ConcurrencyCap == Cardinality(InFlight) <= maxConcurrent

\* the cap is reached while a finding waits in the queue
C8_Witness ==
    /\ Cardinality(InFlight) = maxConcurrent /\ maxConcurrent >= 2
    /\ \E i \in Positions : pc[i] = "queued"
    /\ ~cancelled

C10_RetryBound ==
    /\ [](\A i \in Positions :
            /\ attempts[i] <= 1 + MaxRetries
            /\ (pc[i] = "done" /\ attempts[i] >= 1 /\ retryable[i]) =>
                  /\ attempts[i] = 1 + MaxRetries
                  /\ outcome[i] = << "failed" >>
                  /\ results[i].tag = "fallback")
    /\ [][\A i \in Positions :
            pc[i] = "inflight" => pc'[i] \in {"inflight", "done"}]_vars
    /\ <>[](\A i \in Positions : pc[i] # "inflight")

\* a call ended after 1 + MaxRetries retryable attempts, recorded as failed
C10_Witness ==
    \E i \in Positions :
        /\ pc[i] = "done" /\ retryable[i] /\ attempts[i] = 1 + MaxRetries
        /\ outcome[i] = << "failed" >> /\ usage.failed_requests >= 1

\* C11: the wait before retry a + 1 is backoff_factor * 2^a, so one call waits
\* 1 s, 2 s and 4 s in that order (backoff_factor is one second) and the
\* backoff waits of one call never add up to more than 7 s.
C11_BackoffSchedule ==
    /\ [][\A c \in Callers :
            (tpc[c] = "wait" /\ tpc'[c] = "backoff") =>
                /\ sleep'[c] = backoff_factor * 2^(tries[c] - 1)
                /\ tries[c] = 1 => sleep'[c] = 1 * backoff_factor
                /\ tries[c] = 2 => sleep'[c] = 2 * backoff_factor
                /\ tries[c] = 3 => sleep'[c] = 4 * backoff_factor
                /\ waited'[c] = waited[c] + sleep'[c]]_vars
    /\ [](\A c \in Callers : waited[c] <= 7 * backoff_factor)

\* the last attempt of a call is out after all three backoff waits, 7 s in all
C11_Witness ==
    \E c \in Callers :
        /\ tpc[c] = "wait" /\ tries[c] = 1 + MaxRetries
        /\ waited[c] = 7 * backoff_factor

\* C12: a response with a 4xx status outside the retried set (400, 404) ends
\* the call with that attempt: no further attempt is made, one failed outcome
\* is recorded, and the error comes back to the caller, who falls back.
C12_ClientErrorNotRetried ==
    [][\A i \in Positions, status \in Statuses \ StatusForcelist, g \in AIGuidance :
          (status >= 400 /\ status < 500 /\ Respond(i, status, g)) =>
              /\ attempts'[i] = attempts[i]
              /\ pc'[i] = "done"
              /\ outcome'[i] = Append(outcome[i], "failed")
              /\ Len(outcome'[i]) = 1
              /\ usage'.failed_requests = usage.failed_requests + 1
              /\ usage'.total_requests = usage.total_requests + 1
              /\ results'[i].tag = "fallback"]_vars

\* a call ended failed on its first attempt, whose response was not retryable
C12_Witness ==
    \E i \in Positions :
        /\ pc[i] = "done" /\ attempts[i] = 1 /\ ~retryable[i]
        /\ outcome[i] = << "failed" >> /\ usage.failed_requests >= 1

\* the sum of f over the recorders of S
RECURSIVE SumOver(_, _)
SumOver(S, f) ==
    IF S = {} THEN 0
    ELSE LET r == CHOOSE x \in S : TRUE IN f[r] + SumOver(S \ {r}, f)

Recorded == { r \in Recorders : rpc[r] = "done" }

\* C13: however the recordOutcome operations of concurrent callers interleave,
\* the counters equal those of running the finished ones one after another:
\* total_requests is their number and every token counter the exact sum of
\* the recorded amounts (no update is lost).
C13_NoLostUpdate ==
    /\ stats.total_requests = Cardinality(Recorded)
    /\ stats.successful_requests = Cardinality({ r \in Recorded : rec[r].success })
    /\ stats.failed_requests = Cardinality({ r \in Recorded : ~rec[r].success })
    /\ stats.total_prompt_tokens =
          SumOver(Recorded, [r \in Recorders |->
                                IF rec[r].success THEN rec[r].prompt_tokens ELSE 0])
    /\ stats.total_completion_tokens =
          SumOver(Recorded, [r \in Recorders |->
                                IF rec[r].success THEN rec[r].completion_tokens ELSE 0])
    /\ stats.total_tokens =
          SumOver(Recorded, [r \in Recorders |->
                                IF rec[r].success
                                THEN rec[r].prompt_tokens + rec[r].completion_tokens
                                ELSE 0])

\* all recorders are done, with different token amounts and a failure among them
C13_Witness ==
    /\ Recorded = Recorders
    /\ stats.total_requests = NumRecorders
    /\ stats.failed_requests = 1
    /\ stats.total_prompt_tokens = 150 + 160

Quiescent == \A i \in Positions : pc[i] \in {"queued", "done"}

\* C14: a Transport call dispatched after a budget decrement records its
\* final outcome exactly once, also when the batch is cancelled while the
\* call is in flight; once no resolution is in flight, the outcomes recorded
\* since the batch started number ceiling - remaining.
C14_OutcomeRecordedOnce ==
    /\ [](\A i \in Positions :
            /\ Len(outcome[i]) <= 1
            /\ decs[i] = 0 => outcome[i] = << >>
            /\ (pc[i] = "done" /\ decs[i] >= 1) => Len(outcome[i]) = 1)
    /\ [](Quiescent => /\ usage.total_requests = ceiling - remaining
                       /\ usage.successful_requests + usage.failed_requests
                              = ceiling - remaining)
    /\ (cancelled /\ \E i \in Positions : pc[i] = "inflight")
          ~> (Quiescent /\ \A i \in Positions : Len(outcome[i]) = decs[i])

\* the batch was cancelled while a call that took a budget unit is in flight,
\* its outcome not yet recorded
C14_Witness ==
    \E i \in Positions :
        /\ cancelled /\ pc[i] = "inflight"
        /\ decs[i] = 1 /\ outcome[i] = << >>
        /\ usage.total_requests < ceiling - remaining

\* the findings whose rule the rule table holds and marks as needing no AI
NoAiFindings ==
    { i \in Positions : /\ findings[i].rule \in DOMAIN RuleTable
                        /\ ~RuleTable[findings[i].rule] }

ResolvedByAi(j) ==
    { i \in Positions : /\ i # j
                        /\ pc[i] = "done" /\ results[i].tag = "ai-call"
                        /\ findings[i].rule = findings[j].rule
                        /\ CacheKey(findings[i]) = CacheKey(findings[j]) }

\* C16: once a finding has been resolved by an AI call (in this batch, so at
\* day 0 or later) and before the TTL has run out, resolving the same finding
\* again ends at the cache:
\* the result is tagged cache-hit, carries the guidance of the AI-resolved
\* one (the entry's value), no Transport call is made and the budget stays.
C16_WarmCacheIdempotent ==
    [][\A j \in Positions :
          (/\ pc[j] = "cache" /\ pc'[j] # "cache"
           /\ ResolvedByAi(j) # {}
           /\ now < TtlDays) =>
              /\ pc'[j] = "done"
              /\ results'[j].tag = "cache-hit"
              /\ results'[j].guidance = cache[CacheKey(findings[j])].value
              /\ results'[j].guidance \in { results[i].guidance : i \in ResolvedByAi(j) }
              /\ attempts'[j] = 0
              /\ remaining' = remaining /\ aiCalls' = aiCalls
              /\ cache' = cache]_vars

\* the second of two equal findings was served from the cache the guidance
\* that the single AI call of the batch produced for the first
C16_Witness ==
    \E i, j \in Positions :
        /\ i # j /\ findings[i].rule = findings[j].rule
        /\ CacheKey(findings[i]) = CacheKey(findings[j])
        /\ results[i].tag = "ai-call" /\ results[i].guidance = "ai-b"
        /\ results[j].tag = "cache-hit" /\ results[j].guidance = "ai-b"
        /\ attempts[j] = 0 /\ remaining = ceiling - 1 /\ ceiling = MaxBudget

\* the number of AI-required findings up to position j
Rank(j) == Cardinality({ i \in Positions : i <= j /\ NeedsAI(findings[i].rule) })

\* one resolution at a time, no entry of an earlier run was read from the
\* cache, and no Transport call has failed
SequentialScenario ==
    /\ maxConcurrent = 1
    /\ \A i \in Positions : got[i] # OldGuidance
    /\ \A i \in Positions : outcome[i] # << "failed" >>

\* no finding has the content of an AI-required finding before it
FreshContents ==
    \A i, j \in Positions :
        (i < j /\ NeedsAI(findings[i].rule)) =>
            CacheKey(findings[i]) # CacheKey(findings[j])

\* findings are resolved in input order; no-AI findings are tagged
\* rule-table, the first ceiling AI-required ones ai-call, the later ones
\* fallback without a Transport call, the budget at 0 after the last ai-call
ServedInInputOrder ==
    \A j \in Positions :
        /\ pc[j] # "queued" => \A i \in Positions : i < j => pc[i] = "done"
        /\ pc[j] = "done" =>
              /\ ~NeedsAI(findings[j].rule) => results[j].tag = "rule-table"
              /\ (NeedsAI(findings[j].rule) /\ Rank(j) <= ceiling) =>
                    /\ results[j].tag = "ai-call"
                    /\ remaining = ceiling - Rank(j)
                          \/ \E i \in Positions : i > j /\ pc[i] # "queued"
              /\ (NeedsAI(findings[j].rule) /\ Rank(j) > ceiling) =>
                    /\ results[j].tag = "fallback"
                    /\ attempts[j] = 0
                    /\ remaining = 0

\* C17 (as stated): with max_concurrent = 1, an empty cache, a Transport that
\* succeeds and budget k, the first k AI-required findings are tagged ai-call,
\* the later ones fallback, and no-AI findings rule-table, for every batch.
C17_BudgetOrderAnyBatch == SequentialScenario => ServedInInputOrder

\* C17 (amended): the same, for batches in which no finding repeats the
\* content of an AI-required finding before it (a repeat is served from the
\* cache the first one filled).
C17_BudgetOrderFreshBatch ==
    (SequentialScenario /\ FreshContents) => ServedInInputOrder

\* a batch A (no AI), B, C (AI-required, different contents) with budget 1
\* has returned with A rule-table, B ai-call and cached, C fallback
C17_Witness ==
    /\ SequentialScenario /\ FreshContents
    /\ returned /\ ~cancelled /\ ceiling = 1 /\ remaining = 0
    /\ cache[CacheKey(findings[2])] # NoEntry
    /\ results[1].tag = "rule-table"
    /\ results[2].tag = "ai-call"
    /\ results[3].tag = "fallback" /\ attempts[3] = 0

\* the findings whose Transport call ended in a terminal error
FailedAtTransport == { i \in Positions : outcome[i] = << "failed" >> }

\* C18: when the Transport call of a finding ends in a terminal error (a 4xx
\* that is not retried, or the retries used up), the resolution ends with the
\* generic fallback, that finding has consumed exactly one budget unit, and
\* the failure is counted as one failed request.
C18_TerminalErrorHandled ==
    /\ [](/\ \A i \in FailedAtTransport :
                /\ pc[i] = "done"
                /\ results[i].tag = "fallback" /\ results[i].guidance = "generic"
                /\ decs[i] = 1
                /\ ~retryable[i] \/ attempts[i] = 1 + MaxRetries
           /\ usage.failed_requests = Cardinality(FailedAtTransport))
    /\ [][\A i \in Positions :
            (i \notin FailedAtTransport /\ outcome'[i] = << "failed" >>) =>
                /\ remaining' = remaining /\ cache' = cache
                /\ usage'.failed_requests = usage.failed_requests + 1
                /\ usage'.successful_requests = usage.successful_requests]_vars

\* one call failed on a 4xx at its first attempt and another with its retries
\* used up; both findings fell back and each consumed one unit
C18_Witness ==
    \E i, j \in Positions :
        /\ i \in FailedAtTransport /\ attempts[i] = 1 /\ ~retryable[i]
        /\ j \in FailedAtTransport /\ attempts[j] = 1 + MaxRetries /\ retryable[j]
        /\ results[i].tag = "fallback" /\ results[j].tag = "fallback"
        /\ usage.failed_requests = 2 /\ remaining = ceiling - 2

UnknownRule(i) == findings[i].rule \notin DOMAIN RuleTable
MarkedAiRequired(i) ==
    findings[i].rule \in DOMAIN RuleTable /\ RuleTable[findings[i].rule]

\* C19: a finding whose rule the rule table does not hold passes the budget
\* gate exactly as one whose rule is marked AI-required: after a cache miss,
\* with budget left one unit is consumed and the AI call dispatched, with
\* none left the finding resolves as fallback without a call.
C19_UnknownRuleNeedsAi ==
    [][\A i \in Positions :
          (/\ UnknownRule(i) \/ MarkedAiRequired(i)
           /\ pc[i] = "gate" /\ pc'[i] # "gate") =>
              /\ got[i] = "absent"
              /\ remaining > 0 =>
                    /\ pc'[i] = "inflight" /\ attempts'[i] = 1
                    /\ remaining' = remaining - 1 /\ decs'[i] = 1
              /\ remaining = 0 =>
                    /\ pc'[i] = "done" /\ results'[i].tag = "fallback"
                    /\ attempts'[i] = 0 /\ decs'[i] = 0
                    /\ remaining' = 0]_vars

\* the call of one unknown-rule finding is in flight on the last budget unit
\* and another unknown-rule finding has fallen back without a call
C19_Witness ==
    \E i, j \in Positions :
        /\ UnknownRule(i) /\ pc[i] = "inflight" /\ decs[i] = 1
        /\ UnknownRule(j) /\ pc[j] = "done" /\ results[j].tag = "fallback"
        /\ attempts[j] = 0 /\ got[j] = "absent"
        /\ ceiling >= 1 /\ remaining = 0

\* C20: get returns absent whenever the entry's expiration is at or before
\* the current time, exactly equal included, and deletes nothing: the expired
\* row stays in the table and in the total of the stats until cleanup_expired
\* or clear_all runs.
C20_LazyExpiration ==
    /\ [][\A k \in Keys :
            (/\ ret'.op = "get" /\ ret'.key = k /\ now' = now
             /\ cache[k] # NoEntry /\ cache[k].expires_at <= now) =>
                /\ ret'.value = "absent"
                /\ cache' = cache
                /\ k \in Rows(cache')
                /\ CacheStats(cache', now').total_entries
                      = CacheStats(cache, now).total_entries
                /\ CacheStats(cache', now').expired_entries >= 1]_vars
    /\ [][(Rows(cache') # Rows(cache) /\ Rows(cache') \subseteq Rows(cache))
            => ret'.op \in {"cleanup", "clear"}]_vars

\* a get has just returned absent for a row that expires exactly now and is
\* still in the table
C20_Witness ==
    \E k \in Keys :
        /\ ret = [op |-> "get", key |-> k, value |-> "absent"]
        /\ cache[k] # NoEntry /\ cache[k].expires_at = now
        /\ CacheStats(cache, now).total_entries = 2

\* the rows whose expiration has passed
ExpiredRows(c, t) == { k \in Rows(c) : c[k].expires_at <= t }

\* C21: cleanup_expired removes exactly the rows whose expiration has passed
\* and returns their number; every unexpired entry keeps its row and is
\* returned by get with its value unchanged.
C21_CleanupExact ==
    [][(ret'.op = "cleanup" /\ now' = now) =>
          /\ Rows(cache) \ Rows(cache') = ExpiredRows(cache, now)
          /\ Rows(cache') \subseteq Rows(cache)
          /\ ret'.removed = Cardinality(ExpiredRows(cache, now))
          /\ \A k \in Rows(cache) \ ExpiredRows(cache, now) :
                /\ cache'[k] = cache[k]
                /\ CacheGet(cache', k, now') = cache[k].value]_vars

\* a cleanup at day 1 has removed one row, expired by that day, and left
\* the other, which expires the day after
C21_Witness ==
    /\ ret = [op |-> "cleanup", removed |-> 1]
    /\ now = 1
    /\ \E k \in Keys :
          /\ cache[k] # NoEntry /\ cache[k].expires_at = 2
          /\ CacheGet(cache, k, now) = OldGuidance
          /\ \A j \in Keys \ {k} : cache[j] = NoEntry

\* C22: once the batch is cancelled no queued resolution is started, and a
\* result that is in its slot stays there unchanged through the cancellation
\* and up to the return: what a cancelled batch yields holds, at its own
\* index, every result computed so far.
C22_CancelKeepsResults ==
    /\ [][\A i \in Positions :
            (cancelled /\ pc[i] = "queued") => pc'[i] = "queued"]_vars
    /\ [][\A i \in Positions :
            results[i] # NoResult => results'[i] = results[i]]_vars
    /\ [](\A i \in Positions :
            pc[i] = "done" => /\ results[i] # NoResult
                              /\ results[i].id = findings[i].id)

\* a cancelled batch has returned: the first finding's AI result is in its
\* slot, the second finding is resolved too, and the last was never started
C22_Witness ==
    /\ cancelled /\ returned
    /\ results[1].tag = "ai-call" /\ results[1].id = findings[1].id
    /\ pc[2] = "done"
    /\ pc[3] = "queued" /\ results[3] = NoResult

\* what the tiers before the AI tier give a finding (the result with no budget)
ResultAtZeroBudget(i) ==
    IF got[i] # "absent"
    THEN [id |-> findings[i].id, tag |-> "cache-hit", guidance |-> got[i]]
    ELSE IF ~NeedsAI(findings[i].rule)
    THEN [id |-> findings[i].id, tag |-> "rule-table",
          guidance |-> RuleGuidance(findings[i].rule)]
    ELSE [id |-> findings[i].id, tag |-> "fallback", guidance |-> "generic"]

\* C23 (as stated): with no API key no Transport call is made, whatever the
\* budget, and every finding resolves as rule-table or fallback.
C23_NoKeyOnlyRuleTableOrFallback ==
    ~api_key =>
        /\ aiCalls = 0 /\ \A i \in Positions : attempts[i] = 0
        /\ \A i \in Positions :
              pc[i] = "done" => results[i].tag \in {"rule-table", "fallback"}

\* C23 (amended): with no API key no Transport call is made, whatever the
\* budget, the budget and the usage counters are left alone, and every
\* finding gets the result it gets with a budget of 0: a valid cache entry
\* as cache-hit, else the rule table's guidance, else the fallback.
C23_NoKeyAsZeroBudget ==
    /\ ~api_key =>
          /\ aiCalls = 0 /\ \A i \in Positions : attempts[i] = 0
          /\ remaining = ceiling /\ usage = ZeroUsage
    /\ (~api_key \/ ceiling = 0) =>
          \A i \in Positions : pc[i] = "done" => results[i] = ResultAtZeroBudget(i)

\* a batch with the full budget and no API key has returned: an AI-required
\* finding fell back after a cache miss, a no-AI finding got the rule table's
\* guidance, and the budget is untouched
C23_Witness ==
    /\ ~api_key /\ returned /\ ~cancelled
    /\ ceiling = MaxBudget /\ remaining = MaxBudget
    /\ \E i, j \in Positions :
          /\ NeedsAI(findings[i].rule) /\ got[i] = "absent"
          /\ results[i].tag = "fallback"
          /\ results[j].tag = "rule-table"

GetFailed(i) == [pos |-> i, op |-> "get"] \in storage_errors
SetFailed(i) == [pos |-> i, op |-> "set"] \in storage_errors

\* C24: a storage error during resolve does not fail the resolution: every
\* resolution ends with a tagged result; a failing get is taken as a miss
\* (never a cache hit) and the resolution goes on to the gate, where a
\* finding that needs AI gets the AI call if the budget allows and the
\* fallback if not; a failing set after a successful AI call leaves the
\* cache as it was and the result is still the AI's, tagged ai-call.
C24_StorageFailureDegrades ==
    /\ [](\A i \in Positions :
            /\ pc[i] = "done" =>
                  /\ results[i].id = findings[i].id
                  /\ results[i].tag \in Tags
            /\ GetFailed(i) =>
                  /\ got[i] = "absent" /\ pc[i] \notin {"queued", "cache"}
                  /\ pc[i] = "done" => results[i].tag # "cache-hit"
                  /\ (pc[i] = "done" /\ NeedsAI(findings[i].rule)) =>
                        results[i].tag \in {"ai-call", "fallback"}
            /\ SetFailed(i) =>
                  /\ pc[i] = "done" /\ outcome[i] = << "success" >>
                  /\ results[i].tag = "ai-call"
                  /\ results[i].guidance \in AIGuidance)
    /\ [][\A i \in Positions :
            /\ (~GetFailed(i) /\ [pos |-> i, op |-> "get"] \in storage_errors') =>
                  /\ pc'[i] = "gate" /\ results' = results /\ cache' = cache
            /\ (~SetFailed(i) /\ [pos |-> i, op |-> "set"] \in storage_errors') =>
                  /\ pc[i] = "inflight" /\ cache' = cache
                  /\ results'[i].tag = "ai-call"
            /\ (GetFailed(i) /\ NeedsAI(findings[i].rule)
                   /\ pc[i] = "gate" /\ pc'[i] # "gate") =>
                  /\ remaining > 0 => pc'[i] = "inflight" /\ attempts'[i] = 1
                  /\ remaining = 0 => pc'[i] = "done" /\ results'[i].tag = "fallback"]_vars

\* the batch has returned: for one finding the get failed although the cache
\* held a valid entry for its key, the AI call succeeded, the set failed, and
\* the result is the AI's; for another the get failed and, the budget gone,
\* it fell back
C24_Witness ==
    /\ returned /\ ~cancelled
    /\ \E i, j \in Positions :
          /\ GetFailed(i) /\ SetFailed(i)
          /\ ValidEntry(cache[CacheKey(findings[i])], now)
          /\ cache[CacheKey(findings[i])].value = OldGuidance
          /\ results[i].tag = "ai-call"
          /\ GetFailed(j) /\ results[j].tag = "fallback" /\ attempts[j] = 0

\* what the call recorded by r adds to the cost, at the prices of that call
Charged ==
    [r \in Recorders |->
        IF rec[r].success
        THEN rec[r].prompt_tokens * rec[r].price.prompt
                + rec[r].completion_tokens * rec[r].price.completion
        ELSE 0]

\* C25: each recorded outcome adds prompt_tokens / 1,000,000 * prompt price +
\* completion_tokens / 1,000,000 * completion price to the running cost
\* (0.0096 dollars, 9600 millionths, for 150 and 85 tokens at 30 and 60); the
\* running cost is the sum of the amounts of the calls counted, each at its
\* own prices, whatever the prices of the calls recorded after it.
C25_CostAccumulates ==
    /\ [](stats.estimated_cost_usd = SumOver(Recorded, Charged))
    /\ [][\A r \in Recorders :
            (rpc[r] = "read" /\ rpc'[r] = "done") =>
                /\ stats'.estimated_cost_usd = stats.estimated_cost_usd + Charged[r]
                /\ (/\ rec[r].success
                    /\ rec[r].prompt_tokens = 150 /\ rec[r].completion_tokens = 85
                    /\ rec[r].price = [prompt |-> 30, completion |-> 60]) =>
                       stats'.estimated_cost_usd = stats.estimated_cost_usd + 9600]_vars

\* three successful calls are counted, the first two at 30 and 60 dollars
\* per million and the last on a free model: the cost is still that of the
\* first two
C25_Witness ==
    /\ Recorded = Recorders /\ stats.successful_requests = NumRecorders
    /\ rec[1].price = [prompt |-> 30, completion |-> 60]
    /\ rec[2].price = [prompt |-> 30, completion |-> 60]
    /\ rec[3].price = [prompt |-> 0, completion |-> 0]
    /\ rec[1].prompt_tokens = 150 /\ rec[2].prompt_tokens = 160
    /\ seen[3].successful_requests = 2
    /\ stats.estimated_cost_usd = 9600 + 160 * 30 + 85 * 60

\* C26: the snapshot's success rate is successful_requests / total_requests
\* * 100 (to the hundredth of a percent), 0 when there is no request, and
\* between 0 and 100 after any recordings and resets.
C26_SuccessRate ==
    /\ snapshot.success_rate >= 0 /\ snapshot.success_rate <= 100 * 100
    /\ snapshot.total_requests = 0 => snapshot.success_rate = 0
    /\ snapshot.total_requests > 0 =>
          LET exact == 100 * 100 * snapshot.successful_requests
              told == snapshot.success_rate * snapshot.total_requests
          IN  /\ 2 * (told - exact) <= snapshot.total_requests
              /\ 2 * (exact - told) <= snapshot.total_requests
    /\ stats.total_requests = 0 => GetUsageStats(stats).success_rate = 0

\* a snapshot of two successes in three requests (66.67 %) is at hand and the
\* counters have been reset since
C26_Witness ==
    /\ snapshot.total_requests = 3 /\ snapshot.successful_requests = 2
    /\ snapshot.success_rate = 6667
    /\ stats = ZeroStats /\ Recorded = {}

\* C27 (as stated): the rate limiter lock is never held while a network call
\* of its holder is in flight, and the time of the last call is recorded
\* when the call is issued, before the lock is released, so that the next
\* caller may start min_interval after this start.
C27_LockFreeDuringCall ==
    /\ [](\A c \in Threads :
            tpc[c] \in {"wait", "backoff"} => rate_limiter # c)
    /\ [][\A c \in Threads :
            (tpc[c] = "throttle" /\ tpc'[c] = "wait") => elapsed' = 0]_vars

\* C28 (as stated): a retry is sent only from the throttle step, passed again
\* after the backoff wait, and so at least min_interval after the latest
\* attempt any caller sent.
C28_RetryThrottled ==
    [][\A c \in Callers :
          (tries[c] >= 1 /\ tries'[c] = tries[c] + 1) =>
              /\ tpc[c] = "throttle"
              /\ since_start >= min_interval]_vars

\* the findings whose Transport call has recorded this outcome
Outcome(o) == { i \in Positions : outcome[i] = << o >> }

\* C29: one Transport call records exactly one outcome, when it ends: none
\* while it is in flight, none at an attempt that is retried, so that
\* total_requests counts calls and not attempts; a call that succeeds on a
\* retry is one successful request and no failed one.
C29_OneOutcomePerCall ==
    /\ [](\A i \in Positions :
            /\ Len(outcome[i]) <= 1
            /\ pc[i] = "inflight" => outcome[i] = << >>
            /\ (pc[i] = "done" /\ attempts[i] >= 1) => Len(outcome[i]) = 1
            /\ results[i].tag = "ai-call" => outcome[i] = << "success" >>)
    /\ [](usage.successful_requests = Cardinality(Outcome("success")))
    /\ [](usage.failed_requests = Cardinality(Outcome("failed")))
    /\ [](usage.total_requests
            = Cardinality({ j \in Positions : attempts[j] >= 1 /\ pc[j] = "done" }))
    /\ [][\A i \in Positions :
            /\ (attempts[i] >= 1 /\ attempts'[i] = attempts[i] + 1) =>
                  usage' = usage /\ outcome' = outcome
            /\ (pc[i] = "inflight" /\ pc'[i] = "done") =>
                  usage'.total_requests = usage.total_requests + 1]_vars

\* a call that succeeded on its third attempt is the only one made so far:
\* one request, successful, none failed
C29_Witness ==
    \E i \in Positions :
        /\ results[i].tag = "ai-call" /\ attempts[i] = 3
        /\ aiCalls = 1
        /\ usage = [total_requests |-> 1, successful_requests |-> 1,
                     failed_requests |-> 0]

\* the values a completed set writes, in this run or an earlier one
CompleteValues == AIGuidance \cup {OldGuidance}

C31_SetThenGet ==
    /\ [][\A k \in Keys :
            (ret'.op = "set" /\ ret'.key = k /\ now' = now) =>
                /\ cache'[k] = [value |-> ret'.value, created_at |-> now,
                                expires_at |-> now + TtlDays]
                /\ CacheGet(cache', k, now') = ret'.value
                /\ Rows(cache') = Rows(cache) \cup {k}
                /\ \A j \in Keys \ {k} : cache'[j] = cache[j]]_vars
    /\ [][\A k \in Keys :
            (/\ ret'.op = "get" /\ ret'.key = k /\ now' = now
             /\ cache[k] # NoEntry /\ now < cache[k].expires_at) =>
                ret'.value = cache[k].value]_vars

\* at day 1 a get has returned the value a set wrote that day over the row of
\* an earlier run, while the other key still holds a row that has expired
C31_Witness ==
    \E k \in Keys :
        /\ ret = [op |-> "get", key |-> k, value |-> "ai-b"]
        /\ now = 1
        /\ cache[k] = [value |-> "ai-b", created_at |-> 1, expires_at |-> 1 + TtlDays]
        /\ \E j \in Keys \ {k} : cache[j] # NoEntry /\ cache[j].expires_at <= now
\* the guidance a successful AI call produced, in this run or an earlier one
AiProduced == AIGuidance \cup {OldGuidance}

\* C32: the cache holds only guidance produced by a successful AI call. A
\* row is written only in the step in which a Transport call succeeds, with
\* the guidance of that call under the key of its finding; a step that ends
\* a resolution as rule-table or fallback (no budget, or a failed call)
\* writes nothing, and what a cache-hit serves is never a fallback.
C32_CacheHoldsAiGuidanceOnly ==
    /\ [](\A k \in Rows(cache) : cache[k].value \in AiProduced)
    /\ [][cache' # cache =>
            \E i \in Positions :
                /\ pc[i] = "inflight" /\ pc'[i] = "done"
                /\ results'[i].tag = "ai-call"
                /\ outcome'[i] = Append(outcome[i], "success")
                /\ cache' = CacheSet(cache, CacheKey(findings[i]),
                                     results'[i].guidance, now)]_vars
    /\ [][\A i \in Positions :
            (results[i] = NoResult /\ results'[i] # NoResult
             /\ results'[i].tag \in {"rule-table", "fallback"}) => cache' = cache]_vars
    /\ [](\A i \in Positions :
            (results[i] # NoResult /\ results[i].tag = "cache-hit") =>
                results[i].guidance \in AiProduced)

\* a finding fell back after its Transport call failed, another finding with
\* the same cache key found nothing in the cache and fell back without a
\* call, and the cache is empty
C32_Witness ==
    \E i \in Positions, j \in Positions :
        /\ i # j /\ CacheKey(findings[i]) = CacheKey(findings[j])
        /\ results[i].tag = "fallback" /\ attempts[i] >= 1
        /\ outcome[i] = << "failed" >>
        /\ results[j].tag = "fallback" /\ got[j] = "absent" /\ attempts[j] = 0
        /\ Rows(cache) = {}
\* the row of finding i's cache key exists and has expired
OnlyEntryExpired(i) ==
    LET e == cache[CacheKey(findings[i])] IN e # NoEntry /\ e.expires_at <= now

\* C33: a finding whose cache row has expired is resolved as if it had none.
\* Its lookup finds nothing and hands it on with the row left in place; a
\* finding that found nothing and needs AI gets, budget permitting, a
\* Transport call for one budget unit; the success of that call rewrites the
\* row, valid from now for the TTL; and a lookup that finds a valid row ends
\* as a cache-hit with the row's value.
C33_ExpiredAsUncached ==
    /\ [][\A i \in Positions :
            (pc[i] = "cache" /\ pc'[i] # "cache" /\ OnlyEntryExpired(i)) =>
                /\ got'[i] = "absent" /\ pc'[i] = "gate"
                /\ results'[i] = NoResult
                /\ cache' = cache]_vars
    /\ [][\A i \in Positions :
            (/\ pc[i] = "gate" /\ pc'[i] # "gate" /\ got[i] = "absent"
             /\ NeedsAI(findings[i].rule) /\ api_key /\ remaining > 0) =>
                /\ pc'[i] = "inflight" /\ attempts'[i] = 1
                /\ remaining' = remaining - 1
                /\ aiCalls' = aiCalls + 1]_vars
    /\ [][\A i \in Positions :
            (pc[i] = "inflight" /\ pc'[i] = "done" /\ results'[i].tag = "ai-call") =>
                /\ cache'[CacheKey(findings[i])] =
                      [value |-> results'[i].guidance, created_at |-> now,
                       expires_at |-> now + TtlDays]
                /\ ValidEntry(cache'[CacheKey(findings[i])], now')]_vars
    /\ [][\A j \in Positions :
            (/\ pc[j] = "cache" /\ pc'[j] # "cache"
             /\ ValidEntry(cache[CacheKey(findings[j])], now)) =>
                /\ pc'[j] = "done"
                /\ results'[j] = [id |-> findings[j].id, tag |-> "cache-hit",
                                  guidance |-> cache[CacheKey(findings[j])].value]
                /\ remaining' = remaining]_vars

\* three findings with one cache key: the first was served the row of an
\* earlier run at day 0; at day 1, the row having expired, the second found
\* nothing and was resolved by an AI call for one budget unit; the third was
\* then served the guidance of that call from the rewritten row
C33_Witness ==
    \E h \in Positions, i \in Positions, j \in Positions :
        /\ results[h].tag = "cache-hit" /\ results[h].guidance = OldGuidance
        /\ got[i] = "absent" /\ results[i].tag = "ai-call" /\ results[i].guidance = "ai-a"
        /\ results[j].tag = "cache-hit" /\ results[j].guidance = "ai-a"
        /\ now = 1 /\ remaining = ceiling - 1
        /\ cache[CacheKey(findings[i])] =
              [value |-> "ai-a", created_at |-> 1, expires_at |-> 1 + TtlDays]
\* the two sums a usage snapshot has to satisfy
Balanced(g) ==
    /\ g.total_requests = g.successful_requests + g.failed_requests
    /\ g.total_tokens = g.total_prompt_tokens + g.total_completion_tokens

C35_FailureFrame ==
    [][\A r \in Recorders :
          (rpc[r] = "read" /\ rpc'[r] = "done" /\ ~rec[r].success) =>
              /\ stats'.total_requests = stats.total_requests + 1
              /\ stats'.failed_requests = stats.failed_requests + 1
              /\ stats'.successful_requests = stats.successful_requests
              /\ stats'.total_prompt_tokens = stats.total_prompt_tokens
              /\ stats'.total_completion_tokens = stats.total_completion_tokens
              /\ stats'.total_tokens = stats.total_tokens
              /\ stats'.estimated_cost_usd = stats.estimated_cost_usd]_vars

\* the third request failed after two paid successes: 3 requests, 2
\* successful, 1 failed, the 480 tokens and the cost of the two successes,
\* a success rate of 66.67%
C35_Witness ==
    /\ \E r \in Recorders :
          /\ ~rec[r].success /\ rpc[r] = "done" /\ seen[r].total_requests = 2
          /\ rec[r].price = [prompt |-> 30, completion |-> 60]
          /\ seen[r].total_tokens = 480 /\ seen[r].estimated_cost_usd = 19500
    /\ stats.total_requests = 3 /\ stats.successful_requests = 2
    /\ stats.failed_requests = 1 /\ stats.total_tokens = 480
    /\ stats.estimated_cost_usd = 19500
    /\ SuccessRate(stats) = 6667
\* the keys for which get returns absent although they have a row
AbsentRows(c, t) == { k \in Rows(c) : CacheGet(c, k, t) = "absent" }

\* C36: the stats of the cache, those a get_stats call returned and those of
\* any state, have total_entries = valid_entries + expired_entries, and the
\* expired entries are exactly the rows for whose key get returns absent at
\* that time, which are the rows with an expiration at or before now.
C36_StatsAddUp ==
    /\ [](LET st == CacheStats(cache, now) IN
             /\ st.total_entries = st.valid_entries + st.expired_entries
             /\ st.expired_entries = Cardinality(AbsentRows(cache, now))
             /\ AbsentRows(cache, now) = ExpiredRows(cache, now))
    /\ [][(ret'.op = "stats" /\ now' = now /\ cache' = cache) =>
            /\ ret'.stats.total_entries =
                  ret'.stats.valid_entries + ret'.stats.expired_entries
            /\ ret'.stats.total_entries = Cardinality(Rows(cache))
            /\ ret'.stats.expired_entries = Cardinality(AbsentRows(cache, now))]_vars

\* get_stats has returned 2 entries, 1 valid and 1 expired, the expired one
\* being a row that expires exactly now
C36_Witness ==
    /\ ret = [op |-> "stats",
              stats |-> [total_entries |-> 2, valid_entries |-> 1, expired_entries |-> 1]]
    /\ ret.stats = CacheStats(cache, now)
    /\ \E k \in Keys : cache[k] # NoEntry /\ cache[k].expires_at = now
\* C37: once the user has pressed Stop Scan while the request is in flight
\* (the form is shown and the mutation is pending), the page stays in the
\* 'form' stage with its progress value unchanged until a new scan is
\* started: the response or the error arriving for the stopped request
\* changes neither.
C37_StopHolds ==
    [][(scanStage = "form" /\ mutation = "pending") =>
          \/ scanStage' = "form" /\ progress' = progress
          \/ scans' = scans + 1]_vars
\* C38: for the same usage snapshot the dashboard overview card and the
\* settings AI statistics section show the same success rate, which is the
\* snapshot's success rate (to one decimal) and never more than 100%.
C38_SameSuccessRateShown ==
    /\ DashboardSuccessRate(snapshot) = SettingsSuccessRate(snapshot)
    /\ DashboardSuccessRate(snapshot) = ToFixed1(snapshot.success_rate)
    /\ DashboardSuccessRate(snapshot) <= 1000
====








